---- MODULE Spec2Model ----
(***************************************************************************)
(* Smart Tag Event Tracker: the Express backend (backend/src/index.ts),   *)
(* its in-memory event store and three request handlers, and the part of  *)
(* the React dashboard (frontend/src/App.tsx) that derives the trend      *)
(* window from the displayed event list.                                  *)
(*                                                                         *)
(* Node runs every handler to completion on one thread, so each handler   *)
(* is one atomic action; several clients are the nondeterministic         *)
(* interleaving of these actions.                                         *)
(***************************************************************************)
EXTENDS Integers, Sequences, FiniteSets, TLC

VARIABLES
    events,      \* index.ts:16  the store, newest first
    nextId,      \* index.ts:17  the id counter
    clock,       \* the server's wall clock in ms (what new Date() reads)
    response,    \* the response to the request handled last
    created,     \* history: the events returned by the 201 responses, in order
    readsSince,  \* history: list/stats results returned since the last 201
    feEvents     \* App.tsx:42  the dashboard's `events` state

vars == <<events, nextId, clock, response, created, readsSince, feEvents>>

----------------------------------------------------------------------------
(* Bounds of the model *)

MaxEvents == 3
MaxTicks == 1
ClockStart == 999
MaxTrendEvents == 13

(* App.tsx:141  ordered.slice(-12) *)
TrendWindow == 12

----------------------------------------------------------------------------
(* JSON values of a request body, as express.json() parses them.  A value  *)
(* is its JavaScript type and its String() text.                           *)

JStr(s) == [t |-> "string", v |-> s]
JNum(s) == [t |-> "number", v |-> s]
JBool(s) == [t |-> "boolean", v |-> s]
JNull == [t |-> "null", v |-> "null"]
JArr == [t |-> "array", v |-> ""]
Absent == [t |-> "undefined", v |-> "undefined"]

(* index.ts:21  const { tagId, source, type } = req.body *)
Body(tagId, source, type) == [tagId |-> tagId, source |-> source, type |-> type]

ValidBodies ==
    { Body(JStr("A"), JStr("gate"), JStr("alert")),
      Body(JStr("A"), JStr("dock"), JStr("status")),
      Body(JStr("B"), JStr("gate"), JStr("alert")),
      Body(JStr("B"), JStr("gate"), JStr("constructor")),
      Body(JStr("A"), JStr("dock"), JStr("__proto__")),
      Body(JNum("7"), JBool("true"), JArr) }

InvalidBodies ==
    { Body(JStr(""), JStr("gate"), JStr("alert")),
      Body(Absent, JStr("gate"), JStr("alert")),
      Body(JStr("A"), JNull, JStr("alert")),
      Body(JStr("A"), JBool("false"), JStr("status")),
      Body(JStr("B"), JStr("dock"), JNum("0")),
      Body(JStr("B"), JStr("dock"), Absent) }

Bodies == ValidBodies \cup InvalidBodies

TrendBodies == { Body(JStr("A"), JStr("gate"), JStr("alert")) }

(* index.ts:23  the operand of `!`: JavaScript's ToBoolean is false *)
Falsy(x) ==
    \/ x.t \in {"undefined", "null"}
    \/ x.t = "string" /\ x.v = ""
    \/ x.t = "number" /\ x.v = "0"
    \/ x.t = "boolean" /\ x.v = "false"

MissingTagOnly(body) == Falsy(body.tagId)

(* index.ts:23  if (!tagId || !source || !type) *)
Missing(body) == Falsy(body.tagId) \/ Falsy(body.source) \/ Falsy(body.type)

----------------------------------------------------------------------------
(* Timestamps *)

(* index.ts:34  new Date().toISOString(): "...:ss.sssZ", seconds and ms *)
ToISOString(ms) == [sec |-> ms \div 1000, ms |-> ms % 1000]

(* App.tsx:139  new Date(e.createdAt).getTime() *)
GetTime(iso) == iso.sec * 1000 + iso.ms

----------------------------------------------------------------------------
(* The store *)

NextIdStuck(n) == n

(* index.ts:30  nextId++ *)
NextIdAfter(n) == n + 1

(* index.ts:29-35 *)
NewEvent(body) ==
    [ id |-> nextId,
      tagId |-> body.tagId,
      source |-> body.source,
      type |-> body.type,
      createdAt |-> ToISOString(clock) ]

Push(evs, e) == Append(evs, e)

Replace(evs, e) == IF Len(evs) < 2 THEN <<e>> \o evs ELSE <<e>> \o Tail(evs)

(* index.ts:37  events.unshift(event) *)
Unshift(evs, e) == <<e>> \o evs

----------------------------------------------------------------------------
(* GET /api/stats: the two frequency tables are plain objects ({}), whose  *)
(* property reads fall through to Object.prototype.  A cell is a           *)
(* JavaScript value: a number n or a string s.                             *)

Num(n) == [t |-> "number", n |-> n, s |-> ""]
Str(s) == [t |-> "string", n |-> 0, s |-> s]
Undefined == [t |-> "undefined", n |-> 0, s |-> "undefined"]

(* index.ts:51-52  properties every {} inherits, with their String() text *)
ObjectPrototypeKeys == {"constructor", "__proto__"}

InheritedText(k) ==
    IF k = "constructor" THEN "function Object() { [native code] }"
    ELSE "[object Object]"

EmptyTable == [k \in {} |-> Undefined]

(* index.ts:55  the read eventsByType[e.type] *)
GetProp(tbl, k) ==
    IF k \in DOMAIN tbl THEN tbl[k]
    ELSE IF k \in ObjectPrototypeKeys
         THEN [t |-> "object", n |-> 0, s |-> InheritedText(k)]
         ELSE Undefined

(* index.ts:55  (x || 0) + 1: a number is incremented, anything else that  *)
(* is truthy is converted to a string and "1" is appended                  *)
OrZeroPlusOne(x) ==
    IF x.t = "undefined" \/ (x.t = "number" /\ x.n = 0) \/ (x.t = "string" /\ x.s = "")
    THEN Num(1)
    ELSE IF x.t = "number" THEN Num(x.n + 1)
    ELSE Str(x.s \o "1")

(* index.ts:55  the write eventsByType[e.type] = ...: the inherited        *)
(* __proto__ setter ignores a value that is not an object                  *)
SetProp(tbl, k, val) ==
    IF k = "__proto__" THEN tbl
    ELSE [x \in (DOMAIN tbl) \cup {k} |-> IF x = k THEN val ELSE tbl[x]]

(* index.ts:55-56  a value used as a property key is converted to a string *)
ToKey(x) == x.v

(* index.ts:55  eventsByType[e.type] = (eventsByType[e.type] || 0) + 1 *)
Count(tbl, x) == SetProp(tbl, ToKey(x), OrZeroPlusOne(GetProp(tbl, ToKey(x))))

(* index.ts:54-57  for (const e of events): the tables after the first i *)
RECURSIVE ByType(_, _)
ByType(evs, i) ==
    IF i = 0 THEN EmptyTable ELSE Count(ByType(evs, i - 1), evs[i].type)

RECURSIVE BySource(_, _)
BySource(evs, i) ==
    IF i = 0 THEN EmptyTable ELSE Count(BySource(evs, i - 1), evs[i].source)

(* index.ts:49  what new Set(...) compares: a primitive by type and value, *)
(* an array or object by identity (each parsed body holds a fresh one)     *)
SetMember(e) ==
    IF e.tagId.t \in {"array", "object"}
    THEN [t |-> e.tagId.t, v |-> e.tagId.v, ref |-> e.id]
    ELSE [t |-> e.tagId.t, v |-> e.tagId.v, ref |-> 0]

(* index.ts:48-64 *)
ComputeStats(evs) ==
    [ totalEvents |-> Len(evs),
      uniqueTags |-> Cardinality({SetMember(evs[i]) : i \in 1..Len(evs)}),
      eventsByType |-> ByType(evs, Len(evs)),
      eventsBySource |-> BySource(evs, Len(evs)) ]

----------------------------------------------------------------------------
(* Responses.  Every response carries the same fields; the handler fills   *)
(* the one it sends.  Values that came from JSON are sent back as the same *)
(* JSON, so a body is modelled by the values themselves.                   *)

NoBody == Body(Absent, Absent, Absent)

NoEvent ==
    [ id |-> 0, tagId |-> Absent, source |-> Absent, type |-> Absent,
      createdAt |-> ToISOString(0) ]

NoStats ==
    [ totalEvents |-> 0, uniqueTags |-> 0,
      eventsByType |-> EmptyTable, eventsBySource |-> EmptyTable ]

Response(op, req, status, message, event, list, stats) ==
    [ op |-> op, req |-> req, status |-> status, message |-> message,
      event |-> event, list |-> list, stats |-> stats ]

NoResponse == Response("none", NoBody, 0, "", NoEvent, <<>>, NoStats)

(* index.ts:24-26 *)
BadRequest(body) ==
    Response("create", body, 400, "tagId, source and type are required",
             NoEvent, <<>>, NoStats)

CreatedFromBody(body, event) ==
    Response("create", body, 201, "",
             [event EXCEPT !.createdAt = NoEvent.createdAt], <<>>, NoStats)

(* index.ts:38 *)
Created(body, event) == Response("create", body, 201, "", event, <<>>, NoStats)

(* index.ts:43 *)
EventList(evs) == Response("list", NoBody, 200, "", NoEvent, evs, NoStats)

(* index.ts:59-64 *)
StatsResult(stats) == Response("stats", NoBody, 200, "", NoEvent, <<>>, stats)

NoReads ==
    [ listed |-> FALSE, list |-> <<>>, counted |-> FALSE, stats |-> NoStats ]

----------------------------------------------------------------------------
(* Initial state: index.ts:16-17, App.tsx:42 *)

Init ==
    /\ events = <<>>
    /\ nextId = 1
    /\ clock = ClockStart
    /\ response = NoResponse
    /\ created = <<>>
    /\ readsSince = NoReads
    /\ feEvents = <<>>

(* The wall clock advances (it does not go back) *)
Tick ==
    /\ clock < ClockStart + MaxTicks
    /\ clock' = clock + 1
    /\ UNCHANGED <<events, nextId, response, created, readsSince, feEvents>>

(* index.ts:20-39  POST /api/events *)
PostEvent(body) ==
    IF Missing(body)
    THEN /\ response' = BadRequest(body)
         /\ UNCHANGED <<events, nextId, clock, created, readsSince, feEvents>>
    ELSE LET event == NewEvent(body) IN
         /\ nextId' = NextIdAfter(nextId)
         /\ events' = Unshift(events, event)
         /\ response' = Created(body, event)
         /\ created' = Append(created, response'.event)
         /\ readsSince' = NoReads
         /\ UNCHANGED <<clock, feEvents>>

GetEventsReversing ==
    /\ events' = [i \in 1..Len(events) |-> events[Len(events) + 1 - i]]
    /\ response' = EventList(events')
    /\ readsSince' = [readsSince EXCEPT !.listed = TRUE, !.list = events']
    /\ UNCHANGED <<nextId, clock, created, feEvents>>

(* index.ts:42-44  GET /api/events *)
GetEvents ==
    /\ response' = EventList(events)
    /\ readsSince' = [readsSince EXCEPT !.listed = TRUE, !.list = events]
    /\ UNCHANGED <<events, nextId, clock, created, feEvents>>

(* index.ts:47-65  GET /api/stats *)
GetStats ==
    /\ response' = StatsResult(ComputeStats(events))
    /\ readsSince' = [readsSince EXCEPT !.counted = TRUE,
                                        !.stats = ComputeStats(events)]
    /\ UNCHANGED <<events, nextId, clock, created, feEvents>>

(* App.tsx:55-79  loadData: the dashboard fetches GET /api/events and      *)
(* keeps the array it gets (setEvents)                                     *)
LoadData ==
    /\ response' = EventList(events)
    /\ readsSince' = [readsSince EXCEPT !.listed = TRUE, !.list = events]
    /\ feEvents' = response'.list
    /\ UNCHANGED <<events, nextId, clock, created>>

----------------------------------------------------------------------------
(* The dashboard's trend window, App.tsx:137-142 *)

(* App.tsx:139  the comparator: negative when a is to sort before b *)
CompareCreatedAt(a, b) == GetTime(a.createdAt) - GetTime(b.createdAt)

(* App.tsx:138  Array.prototype.sort is stable: an element goes after       *)
(* every element that does not compare greater than it                     *)
RECURSIVE InsertStable(_, _)
InsertStable(sorted, e) ==
    IF sorted = <<>> THEN <<e>>
    ELSE IF CompareCreatedAt(sorted[Len(sorted)], e) <= 0
         THEN Append(sorted, e)
         ELSE Append(InsertStable(SubSeq(sorted, 1, Len(sorted) - 1), e),
                     sorted[Len(sorted)])

RECURSIVE SortPrefix(_, _)
SortPrefix(evs, i) ==
    IF i = 0 THEN <<>> ELSE InsertStable(SortPrefix(evs, i - 1), evs[i])

(* App.tsx:138-140  [...events].sort(...) *)
SortByCreatedAt(evs) == SortPrefix(evs, Len(evs))

(* App.tsx:141  slice(-n): the last n elements, all of them if fewer *)
SliceLast(seq, n) ==
    SubSeq(seq, (IF Len(seq) > n THEN Len(seq) - n ELSE 0) + 1, Len(seq))

(* App.tsx:137-142 *)
TrendEvents(evs) == SliceLast(SortByCreatedAt(evs), TrendWindow)

trendEvents == TrendEvents(feEvents)

----------------------------------------------------------------------------
(* Specifications *)

Create == \E body \in Bodies : Len(events) < MaxEvents /\ PostEvent(body)

Next == Create \/ GetEvents \/ GetStats \/ Tick

Spec == Init /\ [][Next]_vars

(* The dashboard against a backend that receives one kind of event, long   *)
(* enough for the displayed list to outgrow the trend window               *)
CreateTrend ==
    \E body \in TrendBodies : Len(events) < MaxTrendEvents /\ PostEvent(body)

NextTrend == CreateTrend \/ LoadData \/ Tick

SpecTrend == Init /\ [][NextTrend]_vars

----------------------------------------------------------------------------
(* Helpers of the properties *)

Min(a, b) == IF a < b THEN a ELSE b

Ids(seq) == {seq[i].id : i \in 1..Len(seq)}

IsText(x) == x.t = "string"

IsNonEmptyText(x) == x.t = "string" /\ x.v # ""

RECURSIVE SumCells(_, _)
SumCells(tbl, keys) ==
    IF keys = {} THEN 0
    ELSE LET k == CHOOSE x \in keys : TRUE
         IN (IF tbl[k].t = "number" THEN tbl[k].n ELSE 0)
            + SumCells(tbl, keys \ {k})

(* The reference aggregation: for every key that a stored event has, the   *)
(* number of stored events with it                                         *)
RefTable(evs, field) ==
    [ k \in {ToKey(evs[i][field]) : i \in 1..Len(evs)} |->
        Num(Cardinality({i \in 1..Len(evs) : ToKey(evs[i][field]) = k})) ]

RefStats(evs) ==
    [ totalEvents |-> Len(evs),
      uniqueTags |-> Cardinality({evs[i].tagId : i \in 1..Len(evs)}),
      eventsByType |-> RefTable(evs, "type"),
      eventsBySource |-> RefTable(evs, "source") ]


----------------------------------------------------------------------------
(* Properties *)

EmptyOrAbsent(x) == x.t \in {"undefined", "null"} \/ (x.t = "string" /\ x.v = "")

IsSuccessfulCreate(r) == r.op = "create" /\ r.status = 201

(* C1: the k-th successful create returns id k (the first returns 1, each   *)
(* later one exactly one more than the one before), whatever failed        *)
(* creates and reads were handled in between; the counter is always one    *)
(* past the number of successful creates, so no id is skipped or reused.   *)
C1_SequentialIds ==
    /\ \A k \in 1..Len(created) : created[k].id = k
    /\ nextId = Len(created) + 1
    /\ IsSuccessfulCreate(response) => response.event.id = Len(created)

C1_Witness ==
    /\ IsSuccessfulCreate(response)
    /\ response.event.id = 3
    /\ created[2].id = 2

(* C2: a create whose tagId, source or type is empty or absent is answered *)
(* with status 400 and a message, and leaves the event sequence and the id *)
(* counter as they were.                                                   *)
C2_RejectedCreateLeavesStore ==
    [][ ( /\ response' # response
          /\ response'.op = "create"
          /\ \/ EmptyOrAbsent(response'.req.tagId)
             \/ EmptyOrAbsent(response'.req.source)
             \/ EmptyOrAbsent(response'.req.type) )
        => ( /\ response'.status = 400
             /\ response'.message # ""
             /\ events' = events
             /\ nextId' = nextId ) ]_vars

C2_Witness ==
    /\ response.op = "create"
    /\ response.status = 400
    /\ EmptyOrAbsent(response.req.source)
    /\ Len(events) = 2

(* C3: after N successful creates a list response holds exactly N events,  *)
(* newest first: element 0 has the highest id, ids strictly decrease and   *)
(* createdAt never increases along the list (the clock does not go back).  *)
C3_ListNewestFirst ==
    response.op = "list" =>
        LET l == response.list IN
        /\ Len(l) = Len(created)
        /\ \A i \in 1..Len(l) : l[1].id >= l[i].id
        /\ \A i \in 1..(Len(l) - 1) :
              /\ l[i].id > l[i + 1].id
              /\ GetTime(l[i].createdAt) >= GetTime(l[i + 1].createdAt)

C3_Witness ==
    /\ response.op = "list"
    /\ Len(response.list) = 3
    /\ GetTime(response.list[1].createdAt) > GetTime(response.list[2].createdAt)
    /\ response.list[2].createdAt = response.list[3].createdAt

(* C4: a stats response is the reference aggregation of the store: the     *)
(* number of events, the number of distinct tagIds and, for every type and *)
(* source a stored event has, the number of stored events with it (and no  *)
(* other entry).                                                           *)
C4_StatsMatchReference ==
    response.op = "stats" => response.stats = RefStats(events)

(* C5: the event a successful create returned is, field for field, the     *)
(* element a later list returns at index k, where k is the number of       *)
(* successful creates that came after it.                                  *)
C5_RoundTrip ==
    response.op = "list" =>
        \A k \in 0..(Len(created) - 1) :
            /\ k + 1 <= Len(response.list)
            /\ response.list[k + 1] = created[Len(created) - k]

C5_Witness ==
    /\ response.op = "list"
    /\ Len(created) = 3
    /\ created[1].tagId # created[2].tagId
    /\ created[1].createdAt # created[3].createdAt

(* C6: a list (a stats) request returns what the list (stats) request      *)
(* before it returned when no successful create came in between, and a     *)
(* list or stats request changes neither the event sequence nor the id     *)
(* counter.                                                                *)
C6_ReadsIdempotent ==
    [][ /\ (response'.op = "list" /\ readsSince.listed)
            => response'.list = readsSince.list
        /\ (response'.op = "stats" /\ readsSince.counted)
            => response'.stats = readsSince.stats
        /\ (response' # response /\ response'.op \in {"list", "stats"})
            => (events' = events /\ nextId' = nextId) ]_vars

C6_Witness ==
    /\ response.op = "stats"
    /\ readsSince.listed
    /\ readsSince.counted
    /\ Len(events) = 2

(* C7: every stored event stays in the store unchanged (at the same        *)
(* distance from the end); the store grows by exactly one on a successful  *)
(* create and by nothing on any other request.                             *)
C7_EventsNeverChangeOrLeave ==
    [][ /\ Len(events') >= Len(events)
        /\ \A i \in 1..Len(events) :
              events'[i + (Len(events') - Len(events))] = events[i]
        /\ Len(events') - Len(events)
              = (IF Len(created') = Len(created) + 1 THEN 1 ELSE 0) ]_vars

C7_Witness ==
    /\ Len(events) = 3
    /\ events[3] = created[1]
    /\ response.op = "stats"

(* C8: every stored event has a tagId and a source that are non-empty text *)
(* and a type that is text, whatever JSON values the request carried.      *)
C8_StoredFieldsAreText ==
    \A i \in 1..Len(events) :
        /\ IsNonEmptyText(events[i].tagId)
        /\ IsNonEmptyText(events[i].source)
        /\ IsText(events[i].type)

(* C9: under any interleaving of the requests, ids are unique and strictly *)
(* increasing in creation order, and a list or stats response is that of   *)
(* one store state: a list response is the store, and a stats response has *)
(* numeric counts whose sum, by type and by source, is totalEvents.        *)
C9_ConsistentSnapshot ==
    /\ \A i \in 1..(Len(created) - 1) : created[i].id < created[i + 1].id
    /\ response.op = "list" => response.list = events
    /\ response.op = "stats" =>
          LET st == response.stats IN
          /\ st.totalEvents = Len(events)
          /\ \A k \in DOMAIN st.eventsByType : st.eventsByType[k].t = "number"
          /\ \A k \in DOMAIN st.eventsBySource : st.eventsBySource[k].t = "number"
          /\ st.totalEvents = SumCells(st.eventsByType, DOMAIN st.eventsByType)
          /\ st.totalEvents = SumCells(st.eventsBySource, DOMAIN st.eventsBySource)

(* C10: for a displayed list of N events the trend window holds exactly    *)
(* min(12, N) events, the ones with the highest ids, in creation order     *)
(* (ids increasing), also when events carry the same createdAt.            *)
C10_TrendIsMostRecent ==
    LET n == Len(feEvents)
        m == Min(TrendWindow, n)
        w == trendEvents
    IN  /\ Len(w) = m
        /\ Ids(w) = {feEvents[i].id : i \in 1..m}
        /\ \A j \in 1..(Len(w) - 1) : w[j].id < w[j + 1].id

(* C10, membership alone: the newest displayed event is in the window *)
C10_TrendHoldsNewest ==
    feEvents # <<>> => feEvents[1].id \in Ids(trendEvents)

====
